---- MODULE Spec2Model ----
(***************************************************************************)
(* A model of imgdup.py: the BK-tree over perceptual hashes (BKTree), the  *)
(* catalog built on it (DB) and the run of main() with its snapshot file.  *)
(*                                                                         *)
(* A hash is a natural number read as a bit vector; `h - key` of the       *)
(* source (imagehash's Hamming distance) is Hamming(h, key).               *)
(*                                                                         *)
(* A BKTree object graph is an arena: a sequence of nodes in creation      *)
(* order, node 1 the root.  A node's `children` dict is a set of           *)
(* <<distance, node index>> pairs; the dict's iteration order (insertion   *)
(* order) is the order of the node indices.  The tree `None` is the empty  *)
(* arena.  Ids are the 0-based positions of the source: files[i] of the    *)
(* source is files[i + 1] here.                                            *)
(*                                                                         *)
(* Spec is the catalog under any sequence of DB.add, DB.remove and         *)
(* DB.from_db calls.  SpecStore is Spec followed by one DB.save and one    *)
(* DB.load into a fresh catalog.  SpecRun is main(), started again and     *)
(* again, each run liable to be terminated at any point, a write to a file *)
(* included.                                                               *)
(***************************************************************************)
EXTENDS Integers, Sequences, FiniteSets, TLC

VARIABLES
    db,         \* the catalog: [tree, files]
    inserted,   \* ghost: the (key, id) pairs inserted into db.tree
    tombed,     \* ghost: paths removed and not added again since
    pc,         \* main(): position of the run; in SpecStore: of save and load
    disk,       \* content of DBFILE
    bak,        \* content of DBFILE + ".bak"
    afiles,     \* main(): result of all_files(...) in this run
    dfiles,     \* main(): db.get_files() as read at reconciliation
    new_files,  \* find_dups(): the files not yet iterated
    fi,         \* find_dups(): number of files processed in this run
    ignore_hashes, \* main(): result of find_ignores()
    cur,        \* ghost: what videoHashes saw and returned for the last file
    run,        \* ghost: number of the run
    hist        \* ghost: facts about this run and the one before

vars == <<db, inserted, tombed, pc, disk, bak, afiles, dfiles, new_files, fi,
          ignore_hashes, cur, run, hist>>

---------------------------------------------------------------------------
(* Bounds and inputs *)

\* hashes the queries of the properties range over: 4-bit vectors
Fingerprints == 0 .. 15

\* hashes the fingerprinting of a file can produce
InputHashes == {0, 1, 3, 15}

Paths == {"A", "B", "C"}

\* paths handed to add_file in the catalog-level specification
ApiPaths == {"A", "B"}

\* most records a catalog holds
MaxFiles == 2

\* most hashes of one add_file call
MaxHashes == 2

\* most (key, id) entries an index holds
MaxEntries == 3

None == "None"

---------------------------------------------------------------------------
(* Sequences *)

Range(s) == {s[i] : i \in DOMAIN s}

SeqsUpTo(S, n) == UNION {[1 .. k -> S] : k \in 0 .. n}

Count(s, x) == Cardinality({i \in DOMAIN s : s[i] = x})

NoDuplicates(s) == \A i, j \in DOMAIN s : s[i] = s[j] => i = j

SameBag(s, t) ==
    /\ Len(s) = Len(t)
    /\ \A x \in Range(s) \cup Range(t) : Count(s, x) = Count(t, x)

\* the hash lists handed to add_file in the catalog-level specification
HashLists == SeqsUpTo(InputHashes, MaxHashes)

---------------------------------------------------------------------------
(* imagehash: h - key *)

RECURSIVE Hamming(_, _)
Hamming(a, b) ==
    IF a = 0 /\ b = 0 THEN 0
    ELSE (IF a % 2 = b % 2 THEN 0 ELSE 1) + Hamming(a \div 2, b \div 2)

---------------------------------------------------------------------------
(* class BKTree *)

BKTree(h, v) == [key |-> h, values |-> <<v>>, children |-> {}]

HasChild(t, n, d) == \E c \in t[n].children : c[1] = d

Child(t, n, d) == (CHOOSE c \in t[n].children : c[1] = d)[2]

\* add with a fault: below an existing child the distance to the parent is
\* used again, and the new node is hung under the child without descending
BKTree_add_stale(t, n, h, v) ==
    LET d == Hamming(h, t[n].key)
    IN  IF d = 0 THEN [t EXCEPT ![n].values = Append(@, v)]
        ELSE LET p == IF HasChild(t, n, d) THEN Child(t, n, d) ELSE n
             IN  Append([t EXCEPT ![p].children = @ \cup {<<d, Len(t) + 1>>}],
                        BKTree(h, v))

RECURSIVE BKTree_add(_, _, _, _)
BKTree_add(t, n, h, v) ==
    LET d == Hamming(h, t[n].key)
    IN  IF d = 0 THEN [t EXCEPT ![n].values = Append(@, v)]
        ELSE IF HasChild(t, n, d) THEN BKTree_add(t, Child(t, n, d), h, v)
        ELSE Append([t EXCEPT ![n].children = @ \cup {<<d, Len(t) + 1>>}],
                    BKTree(h, v))

\* the list of (key, values) pairs search appends to retlist, in order
RECURSIVE BKTree_search(_, _, _, _)
RECURSIVE SearchRange(_, _, _, _, _, _)
SearchRange(t, n, h, r, i, hi) ==
    IF i > hi THEN <<>>
    ELSE (IF HasChild(t, n, i) THEN BKTree_search(t, Child(t, n, i), h, r)
          ELSE <<>>)
         \o SearchRange(t, n, h, r, i + 1, hi)

BKTree_search(t, n, h, r) ==
    LET d == Hamming(h, t[n].key)
    IN  (IF d <= r THEN << <<t[n].key, t[n].values>> >> ELSE <<>>)
        \o (IF d > 0 THEN SearchRange(t, n, h, r, d - r, d + r) ELSE <<>>)

\* children.values() in dict order: by node index, which is creation order
RECURSIVE ChildrenInOrder(_)
ChildrenInOrder(cs) ==
    IF cs = {} THEN <<>>
    ELSE LET c == CHOOSE x \in cs : \A y \in cs : x[2] <= y[2]
         IN  <<c[2]>> \o ChildrenInOrder(cs \ {c})

\* the (key, v) pairs elements() yields, in order
RECURSIVE BKTree_elements(_, _)
RECURSIVE ElementsOfAll(_, _)
ElementsOfAll(t, ns) ==
    IF ns = <<>> THEN <<>>
    ELSE BKTree_elements(t, Head(ns)) \o ElementsOfAll(t, Tail(ns))

BKTree_elements(t, n) ==
    [i \in 1 .. Len(t[n].values) |-> <<t[n].key, t[n].values[i]>>]
    \o ElementsOfAll(t, ChildrenInOrder(t[n].children))

---------------------------------------------------------------------------
(* class DB *)

DB_init == [tree |-> <<>>, files |-> <<>>]

RECURSIVE AddHashes(_, _, _)
AddHashes(t, hashes, i) ==
    IF hashes = <<>> THEN t
    ELSE AddHashes(IF t = <<>> THEN <<BKTree(Head(hashes), i)>>
                   ELSE BKTree_add(t, 1, Head(hashes), i),
                   Tail(hashes), i)

\* DB.add with a fault: the id is the length of the list after the append
DB_add_off_by_one(d, path, hashes) ==
    LET files == Append(d.files, path)
    IN  [tree |-> AddHashes(d.tree, hashes, Len(files)), files |-> files]

\* DB.add with a fault: a file without hashes is not recorded
DB_add_skip_empty(d, path, hashes) ==
    IF hashes = <<>> THEN d
    ELSE [tree |-> AddHashes(d.tree, hashes, Len(d.files)),
          files |-> Append(d.files, path)]

\* DB.add with a fault: the record of a removed file is used again
DB_add_reuse(d, path, hashes) ==
    LET dead == {i \in DOMAIN d.files : d.files[i] = None}
        i    == IF dead = {} THEN Len(d.files) + 1
                ELSE CHOOSE j \in dead : \A k \in dead : j <= k
        files == IF dead = {} THEN Append(d.files, path)
                 ELSE [d.files EXCEPT ![i] = path]
    IN  [tree |-> AddHashes(d.tree, hashes, i - 1), files |-> files]

DB_add(d, path, hashes) ==
    LET files == Append(d.files, path)
    IN  [tree |-> AddHashes(d.tree, hashes, Len(files) - 1), files |-> files]

\* DB.remove with a fault: the loop stops at the first record it tombstones
DB_remove_first(d, paths) ==
    LET hit == {i \in DOMAIN d.files : d.files[i] # None /\ d.files[i] \in paths}
    IN  IF hit = {} THEN d
        ELSE [d EXCEPT !.files[CHOOSE i \in hit : \A j \in hit : i <= j] = None]

DB_remove(d, paths) ==
    [d EXCEPT !.files =
        [i \in DOMAIN d.files |->
            IF d.files[i] # None /\ d.files[i] \in paths THEN None
            ELSE d.files[i]]]

\* the inner loops of search_all: one (key, files) pair of a search result
RECURSIVE MatchesOfIds(_, _, _)
MatchesOfIds(d, key, ids) ==
    IF ids = <<>> THEN <<>>
    ELSE (IF d.files[Head(ids) + 1] = None THEN <<>>
          ELSE << <<key, d.files[Head(ids) + 1]>> >>)
         \o MatchesOfIds(d, key, Tail(ids))

RECURSIVE MatchesOfFound(_, _)
MatchesOfFound(d, found) ==
    IF found = <<>> THEN <<>>
    ELSE MatchesOfIds(d, Head(found)[1], Head(found)[2])
         \o MatchesOfFound(d, Tail(found))

RECURSIVE DB_search_all(_, _, _)
DB_search_all(d, hashes, threshold) ==
    IF d.tree = <<>> \/ hashes = <<>> THEN <<>>
    ELSE MatchesOfFound(d, BKTree_search(d.tree, 1, Head(hashes), threshold))
         \o DB_search_all(d, Tail(hashes), threshold)

DB_get_files(d) == {d.files[i] : i \in DOMAIN d.files} \ {None}

\* the (path, key) pairs elements() yields, in order
RECURSIVE LiveElements(_, _)
LiveElements(d, es) ==
    IF es = <<>> THEN <<>>
    ELSE (IF d.files[Head(es)[2] + 1] # None
          THEN << <<d.files[Head(es)[2] + 1], Head(es)[1]>> >>
          ELSE <<>>)
         \o LiveElements(d, Tail(es))

DB_elements(d) ==
    IF d.tree = <<>> THEN <<>> ELSE LiveElements(d, BKTree_elements(d.tree, 1))

\* dead / total; the division by zero of an empty files list is an error
DB_procent_dead(d) ==
    LET total == Len(d.files)
        dead  == Cardinality({i \in DOMAIN d.files : d.files[i] = None})
    IN  IF total = 0 THEN [error |-> "ZeroDivisionError", dead |-> 0, total |-> 0]
        ELSE [error |-> "", dead |-> dead, total |-> total]

\* the loop of from_db with a fault: every pair is added as a file of its own
RECURSIVE FromDbLoop_nomerge(_, _, _)
FromDbLoop_nomerge(d, seen, es) ==
    IF es = <<>> THEN d
    ELSE FromDbLoop_nomerge(DB_add(d, Head(es)[1], <<Head(es)[2]>>), seen, Tail(es))

\* the loop of from_db; seen is a set of <<path, id>> pairs
RECURSIVE FromDbLoop(_, _, _)
FromDbLoop(d, seen, es) ==
    IF es = <<>> THEN d
    ELSE LET f == Head(es)[1]
             h == Head(es)[2]
         IN  IF \E s \in seen : s[1] = f
             THEN FromDbLoop(
                    [d EXCEPT !.tree =
                        BKTree_add(@, 1, h, (CHOOSE s \in seen : s[1] = f)[2])],
                    seen, Tail(es))
             ELSE LET d2 == DB_add(d, f, <<h>>)
                  IN  FromDbLoop(d2, seen \cup {<<f, Len(d2.files) - 1>>}, Tail(es))

DB_from_db(otherdb) == FromDbLoop(DB_init, {}, DB_elements(otherdb))

\* save with a fault: the files list is pickled without its tombstones
Snapshot_live(d) ==
    [state |-> "complete", tree |-> d.tree,
     files |-> SelectSeq(d.files, LAMBDA f : f # None)]

\* save(path) pickles (self.tree, self.files); load(path) unpickles them
Snapshot(d) == [state |-> "complete", tree |-> d.tree, files |-> d.files]

NoFile == [state |-> "absent", tree |-> <<>>, files |-> <<>>]

\* a file whose write was cut short: it holds a prefix of the pickle, here
\* the tree without the files list
Partial(content) == [state |-> "partial", tree |-> content.tree, files |-> <<>>]

---------------------------------------------------------------------------
(* The catalog under any sequence of add, remove and from_db calls *)

NoFileSeen == [path |-> None, primary |-> <<>>, images |-> <<>>,
               extra_images |-> <<>>, dups |-> <<>>]

\* the ghost record at the start of the first run
NoHistory ==
    [ever      |-> FALSE,    \* some save was completed, in this run or before
     ops       |-> 0,        \* remove, add and save calls of this run
     disk0     |-> NoFile,   \* DBFILE at the start of this run
     files0    |-> <<>>,     \* db.files as loaded
     done      |-> <<>>,     \* the files processed in this run, in order
     saves     |-> 0,        \* checkpoint saves completed in this run
     after     |-> <<>>,     \* db after each insert of this run, in order
     kill      |-> "none",   \* how this run was terminated
     lost      |-> {},       \* files processed after the last completed save
     rebuilt   |-> 0,        \* from_db calls of this run
     prevKill  |-> "none",   \* kill, lost and saves of the run before
     prevLost  |-> {},
     prevSaves |-> 0]

NoRun == [pc |-> "api", disk |-> NoFile, bak |-> NoFile, afiles |-> {},
          dfiles |-> {}, new_files |-> {}, fi |-> 0, ignore_hashes |-> <<>>,
          cur |-> NoFileSeen, run |-> 0, hist |-> NoHistory]

RunVarsAre(r) ==
    /\ pc = r.pc /\ disk = r.disk /\ bak = r.bak /\ afiles = r.afiles
    /\ dfiles = r.dfiles /\ new_files = r.new_files /\ fi = r.fi
    /\ ignore_hashes = r.ignore_hashes
    /\ cur = r.cur /\ run = r.run /\ hist = r.hist

runVars == <<pc, disk, bak, afiles, dfiles, new_files, fi, ignore_hashes, cur,
             run, hist>>

Init ==
    /\ db = DB_init
    /\ inserted = {}
    /\ tombed = {}
    /\ RunVarsAre(NoRun)

\* number of (key, id) entries of an arena
RECURSIVE Entries(_)
Entries(t) == IF t = <<>> THEN 0 ELSE Len(Head(t).values) + Entries(Tail(t))

AddFile(path, hashes) ==
    /\ Len(db.files) < MaxFiles
    /\ Entries(db.tree) + Len(hashes) <= MaxEntries
    /\ db' = DB_add(db, path, hashes)
    /\ inserted' = inserted \cup {<<h, Len(db.files)>> : h \in Range(hashes)}
    /\ tombed' = tombed \ {path}
    /\ UNCHANGED runVars

RemoveFiles(paths) ==
    /\ db' = DB_remove(db, paths)
    /\ tombed' = tombed \cup (paths \cap DB_get_files(db))
    /\ UNCHANGED <<inserted, runVars>>

\* the id from_db gives a path: its position in the new files list
NewId(d, f) == (CHOOSE i \in DOMAIN d.files : d.files[i] = f) - 1

Compact ==
    /\ db' = DB_from_db(db)
    /\ inserted' = {<<e[2], NewId(db', e[1])>> : e \in Range(DB_elements(db))}
    /\ UNCHANGED <<tombed, runVars>>

Next ==
    \/ \E path \in ApiPaths, hashes \in HashLists :
          AddFile(path, hashes)
    \/ \E paths \in SUBSET ApiPaths : RemoveFiles(paths)
    \/ Compact

Spec == Init /\ [][Next]_vars

---------------------------------------------------------------------------
(* Properties of the catalog *)

\* every radius up to the largest distance of two 4-bit hashes
Radii == 0 .. 4

QueryLists ==
    {<<>>} \cup {<<q>> : q \in Fingerprints}
           \cup {<<p, q>> : p \in InputHashes, q \in InputHashes}

\* search's result as a set of (key, id) pairs
RECURSIVE PairsOf(_)
PairsOf(found) ==
    IF found = <<>> THEN {}
    ELSE {<<Head(found)[1], v>> : v \in Range(Head(found)[2])}
         \cup PairsOf(Tail(found))

SearchPairs(t, h, r) == IF t = <<>> THEN {} ELSE PairsOf(BKTree_search(t, 1, h, r))

\* the keys the index holds under an id, in the order of elements()
RECURSIVE KeysWithId(_, _)
KeysWithId(es, id) ==
    IF es = <<>> THEN <<>>
    ELSE (IF Head(es)[2] = id THEN <<Head(es)[1]>> ELSE <<>>)
         \o KeysWithId(Tail(es), id)

KeysUnder(d, id) ==
    IF d.tree = <<>> THEN <<>> ELSE KeysWithId(BKTree_elements(d.tree, 1), id)

\* C1: for every query, also one equal to a stored key, and every radius,
\* search returns exactly the inserted (key, id) pairs whose key is within
\* the radius of the query: the result of a linear scan.
C1_SearchEqualsScan ==
    \A q \in Fingerprints, r \in Radii :
        SearchPairs(db.tree, q, r)
            = {p \in inserted : Hamming(q, p[1]) <= r}

\* C2: compaction returns a catalog with the same live paths.
C2_CompactKeepsLivePaths ==
    DB_get_files(DB_from_db(db)) = DB_get_files(db)

\* C3: search_all on the compacted catalog returns the same multiset of
\* (matched key, path) results as on the catalog before compaction.
C3_CompactKeepsSearchAll ==
    \A qs \in QueryLists, r \in Radii :
        SameBag(DB_search_all(DB_from_db(db), qs, r), DB_search_all(db, qs, r))

\* the paths a list of (key, path) or (path, key) pairs names
PathsAt(s, k) == {s[i][k] : i \in DOMAIN s}

\* every path some read path of the catalog reports
Reported(d) ==
    DB_get_files(d)
    \cup PathsAt(DB_elements(d), 1)
    \cup UNION {PathsAt(DB_search_all(d, <<q>>, r), 2) : q \in Fingerprints, r \in Radii}

RatioGrows(before, after) ==
    /\ before.error = "" /\ after.error = ""
    /\ after.dead * before.total > before.dead * after.total

RemovesLive ==
    \E paths \in SUBSET ApiPaths :
        /\ paths \cap DB_get_files(db) # {}
        /\ RemoveFiles(paths)

\* C5: once a live path is removed, and until it is added again, no read
\* path reports it (search_all, get_files, elements), whatever operations
\* follow; and procent_dead right after the removal is strictly greater
\* than right before it.
C5_RemovedStaysHidden ==
    /\ [](tombed # {} => tombed \cap Reported(db) = {})
    /\ [][RemovesLive => RatioGrows(DB_procent_dead(db), DB_procent_dead(db)')]_vars

\* a removed path whose record and index entries are still held, beside a
\* live record
C5_Witness ==
    /\ tombed # {}
    /\ DB_get_files(db) # {}
    /\ \E i \in DOMAIN db.files :
          /\ db.files[i] = None
          /\ \E p \in inserted : p[2] = i - 1

\* the ids of the live records of path p that hold the key k
IdsHolding(d, p, k) ==
    {i \in DOMAIN d.files :
        d.files[i] = p /\ \E n \in DOMAIN d.tree :
            d.tree[n].key = k /\ (i - 1) \in Range(d.tree[n].values)}

StoredKeys(d) == {d.tree[n].key : n \in DOMAIN d.tree}

\* C11: search_all repeats a path only per matching pair: a live path p is
\* paired with a stored key k once for each query entry within the radius of
\* k and each record of p holding k, not more often and not less; and a node
\* holds each id at most once.
C11_RepeatsPerPairOnly ==
    /\ \A n \in DOMAIN db.tree : NoDuplicates(db.tree[n].values)
    /\ \A qs \in QueryLists, r \in Radii :
          \A p \in DB_get_files(db), k \in StoredKeys(db) :
              Count(DB_search_all(db, qs, r), <<k, p>>)
                  = Cardinality({i \in DOMAIN qs : Hamming(qs[i], k) <= r})
                        * Cardinality(IdsHolding(db, p, k))

\* the ids the index holds
IdsOf(t) == UNION {Range(t[n].values) : n \in DOMAIN t}

\* C13: an add gives the new record an id greater than every id given
\* before, removals or not, and stores the hashes under that id; the files
\* list does not shrink and the records and index entries of the other ids
\* stay as they were.  A remove changes nothing but the path of the live
\* records it matches: the number of records, the other records and the
\* index stay as they were.
C13_IdsNotReused ==
    /\ [][\A path \in ApiPaths, hashes \in HashLists :
            AddFile(path, hashes) =>
                LET id == Len(db.files)
                IN  /\ \A v \in IdsOf(db.tree) : v < id
                    /\ Len(db'.files) = id + 1
                    /\ db'.files[id + 1] = path
                    /\ SubSeq(db'.files, 1, id) = db.files
                    /\ SameBag(KeysUnder(db', id), hashes)
                    /\ \A v \in 0 .. id - 1 :
                          KeysUnder(db', v) = KeysUnder(db, v)]_vars
    /\ [][\A paths \in SUBSET ApiPaths :
            RemoveFiles(paths) =>
                /\ db'.tree = db.tree
                /\ Len(db'.files) = Len(db.files)
                /\ \A i \in DOMAIN db.files :
                      db'.files[i] = IF db.files[i] \in paths THEN None
                                     ELSE db.files[i]]_vars

\* a record added after a removal, beside the tombstone
C13_Witness ==
    /\ Len(db.files) = 2
    /\ db.files[1] = None
    /\ db.files[2] # None
    /\ tombed = {}
    /\ KeysUnder(db, 0) # <<>>
    /\ KeysUnder(db, 1) # <<>>

\* the nodes of the subtree of node c
RECURSIVE Subtree(_, _)
Subtree(t, c) == {c} \cup UNION {Subtree(t, ch[2]) : ch \in t[c].children}

\* C14: whatever inserts, compactions and loads led to the index: for every
\* node n and every child of n at bucket d, d is at least 1 and every key in
\* the child's subtree is at distance exactly d from n's key; and no two
\* nodes hold the same key.
C14_BucketInvariant ==
    /\ \A n \in DOMAIN db.tree : \A c \in db.tree[n].children :
          /\ c[1] >= 1
          /\ \A m \in Subtree(db.tree, c[2]) :
                Hamming(db.tree[m].key, db.tree[n].key) = c[1]
    /\ \A m, n \in DOMAIN db.tree :
          db.tree[m].key = db.tree[n].key => m = n

\* a loaded index with a node two levels below the root
C14_Witness ==
    /\ pc = "restored"
    /\ db.tree # <<>>
    /\ \E c \in db.tree[1].children : db.tree[c[2]].children # {}

\* the entries of the index, as <<node, position in values>>, whose record
\* holds the path p
EntriesOfPath(d, p) ==
    UNION {{<<n, j>> : j \in {i \in DOMAIN d.tree[n].values :
                                d.files[d.tree[n].values[i] + 1] = p}} :
           n \in DOMAIN d.tree}

\* how often the key k is stored for the path p
KeyCount(d, p, k) ==
    Cardinality({e \in EntriesOfPath(d, p) : d.tree[e[1]].key = k})

\* C15: from_db gives a catalog without tombstones in which no path has two
\* records, the records of one path being merged; no path is live in it
\* that was not live before; and every live path has each hash stored as
\* often as before.
C15_CompactMergesAndKeeps ==
    [][Compact =>
        /\ \A i \in DOMAIN db'.files : db'.files[i] # None
        /\ NoDuplicates(db'.files)
        /\ DB_get_files(db') \subseteq DB_get_files(db)
        /\ \A p \in DB_get_files(db), k \in Fingerprints :
              KeyCount(db', p, k) = KeyCount(db, p, k)]_vars

\* one record that holds more hashes than one add gives it: two records of
\* a path, merged
C15_Witness ==
    /\ Len(db.files) = 1
    /\ db.files[1] # None
    /\ Len(KeysUnder(db, 0)) > MaxHashes

\* the paths search_all returns for some query and radius
Found(d) ==
    UNION {PathsAt(DB_search_all(d, <<q>>, r), 2) : q \in Fingerprints, r \in Radii}

\* C16: add_file with no hashes, in any catalog, the one without an index
\* too: the path is appended as a live record, the index stays as it was
\* and so does every search_all result; and as long as no hash is stored for
\* a live path, no search_all returns it.
C16_AddWithoutHashes ==
    /\ [][\A path \in ApiPaths :
            AddFile(path, <<>>) =>
                /\ db'.files = Append(db.files, path)
                /\ path \in DB_get_files(db')
                /\ db'.tree = db.tree
                /\ \A q \in InputHashes, r \in Radii :
                      DB_search_all(db', <<q>>, r) = DB_search_all(db, <<q>>, r)]_vars
    /\ [](\A p \in DB_get_files(db) :
            EntriesOfPath(db, p) = {} => p \notin Found(db))

\* two live records in a catalog whose index has no root
C16_Witness ==
    /\ db.tree = <<>>
    /\ Cardinality(DB_get_files(db)) = 2

---------------------------------------------------------------------------
(* videoHashes and find_dups *)

\* what extractImages yields for a file: a list of frames, each given by the
\* dhash of the image and the dhash of its mirror image.  A file may give no
\* frame at all.
FrameLists ==
    { <<>>,
      << <<0, 1>> >>,
      << <<3, 15>> >>,
      << <<0, 1>>, <<15, 0>> >> }

\* what find_ignores returns: [] without the ignore directory
IgnoreLists == {<<>>, <<15>>}

\* hash_img with a fault: the hash is stored whether ignored or not
hash_img_unfiltered(h, imgs, ignore) == Append(imgs, h)

\* hash_img of the hash h: appended to imgs unless an ignored hash is near
hash_img(h, imgs, ignore) ==
    IF \E i \in DOMAIN ignore : Hamming(ignore[i], h) <= 3 THEN imgs
    ELSE Append(imgs, h)

RECURSIVE HashFrames(_, _, _, _)
HashFrames(frames, ignore, images, extra_images) ==
    IF frames = <<>> THEN [images |-> images, extra_images |-> extra_images]
    ELSE HashFrames(Tail(frames), ignore,
                    hash_img(Head(frames)[1], images, ignore),
                    hash_img(Head(frames)[2], extra_images, ignore))

videoHashes(frames, ignore) == HashFrames(frames, ignore, <<>>, <<>>)

\* the matches of find_dups' loop over chain(images, extra_images)
RECURSIVE MatchesOfAll(_, _)
MatchesOfAll(d, hashes) ==
    IF hashes = <<>> THEN <<>>
    ELSE DB_search_all(d, <<Head(hashes)>>, 3) \o MatchesOfAll(d, Tail(hashes))

\* dups: the number of matches of each matched path, as <<path, count>> pairs
Dups(d, hashes) ==
    LET ms == MatchesOfAll(d, hashes)
    IN  {<<f, Cardinality({i \in DOMAIN ms : ms[i][2] = f})>> : f \in PathsAt(ms, 2)}

\* the files are saved every SAVEBACK-th file.  The source sets SAVEBACK to
\* 400; the interval is small here so that a run of few files reaches it.
SAVEBACK == 2

\* the test with a fault: the loop index is tested, not the number of files done
SaveDue_index(n) == (n - 1) % SAVEBACK = 0

\* (fi + 1) % SAVEBACK == 0, of the number n = fi + 1 of files done
SaveDue(n) == n % SAVEBACK = 0

\* removed_files with a fault: no recorded file is taken as removed
Removed_files_none(a, d) == {}

\* removed_files with a fault: every recorded file is taken as removed
Removed_files_all(a, d) == d

\* main(): removed_files and new_files
Removed_files(a, d) == d \ a

New_files(a, d) == a \ d

\* DB.load with a fault: the tree is unpickled and assigned before the files list
DB_load_in_two(d, content) ==
    IF content.state = "complete"
    THEN [raised |-> FALSE, db |-> [tree |-> content.tree, files |-> content.files]]
    ELSE [raised |-> TRUE, db |-> [d EXCEPT !.tree = content.tree]]

\* load: pickle.load raises on a cut file, before tree and files are assigned
DB_load(d, content) ==
    IF content.state = "complete"
    THEN [raised |-> FALSE, db |-> [tree |-> content.tree, files |-> content.files]]
    ELSE [raised |-> TRUE, db |-> d]

---------------------------------------------------------------------------
(* The catalog saved and loaded into a fresh catalog *)

\* db.save(path)
Persist ==
    /\ pc = "api"
    /\ disk' = Snapshot(db)
    /\ pc' = "persisted"
    /\ UNCHANGED <<db, inserted, tombed, bak, afiles, dfiles, new_files, fi,
                   ignore_hashes, cur, run, hist>>

\* db = DB(); db.load(path)
Restore ==
    /\ pc = "persisted"
    /\ LET r == DB_load(DB_init, disk)
       IN  /\ db' = r.db
           /\ pc' = IF r.raised THEN "raised" ELSE "restored"
    /\ UNCHANGED <<inserted, tombed, disk, bak, afiles, dfiles, new_files, fi,
                   ignore_hashes, cur, run, hist>>

\* add, remove and from_db calls, then one save and one load of what was saved
StoreNext ==
    \/ pc = "api" /\ Next
    \/ Persist
    \/ Restore

SpecStore == Init /\ [][StoreNext]_vars

Restores == pc = "persisted" /\ pc' = "restored"

IdsValid == \A v \in IdsOf(db.tree) : 0 <= v /\ v < Len(db.files)

\* C18 as claimed: after any add, remove, from_db, save and load, every id
\* in a node of the index is a position of the files list; and the index is
\* without a root only if no hash was ever inserted: an index that has a
\* root keeps one.
C18_RootOnceAndForAll ==
    /\ [] IdsValid
    /\ [][db.tree # <<>> => db'.tree # <<>>]_vars

\* C18 as amended: every id in a node of the index is a position of the
\* files list; and the index is without a root only if the catalog holds no
\* hash: none was inserted since DB() or from_db made it, from_db inserting
\* the hashes of the live files only.
C18_IdsValidRootIffHashes ==
    /\ IdsValid
    /\ db.tree = <<>> => inserted = {}
    /\ inserted = {} => db.tree = <<>>

\* a loaded catalog that was rebuilt after a removal and has an index
C18_Witness ==
    /\ pc = "restored"
    /\ tombed # {}
    /\ db.tree # <<>>
    /\ \A i \in DOMAIN db.files : db.files[i] # None

---------------------------------------------------------------------------
(* main(), run again and again, and terminated at any point *)

\* most runs
MaxRuns == 2

RunInit ==
    /\ db = DB_init
    /\ inserted = {}
    /\ tombed = {}
    /\ RunVarsAre([NoRun EXCEPT !.pc = "start", !.run = 1])

Running == {"copy", "load", "scan", "loop", "checkpoint", "save"}

Ended == {"refused", "aborted", "raised", "done", "killed"}

ghosts == <<inserted, tombed>>

\* main() returns at once when _DUPS_ holds the reports of an earlier run
DupsNotEmpty ==
    /\ pc = "start"
    /\ pc' = "refused"
    /\ UNCHANGED <<db, disk, bak, afiles, dfiles, new_files, fi, ignore_hashes,
                   cur, run, hist, ghosts>>

Begin ==
    /\ pc = "start"
    /\ db' = DB_init
    /\ pc' = IF disk.state # "absent" THEN "copy" ELSE "scan"
    /\ UNCHANGED <<disk, bak, afiles, dfiles, new_files, fi, ignore_hashes,
                   cur, run, hist, ghosts>>

\* shutil.copyfile(DBFILE, DBFILE + ".bak")
Backup ==
    /\ pc = "copy"
    /\ bak' = disk
    /\ pc' = "load"
    /\ UNCHANGED <<db, disk, afiles, dfiles, new_files, fi, ignore_hashes,
                   cur, run, hist, ghosts>>

Load ==
    /\ pc = "load"
    /\ LET r == DB_load(db, disk)
       IN  /\ db' = r.db
           /\ pc' = IF r.raised THEN "aborted" ELSE "scan"
           /\ hist' = [hist EXCEPT !.files0 = r.db.files]
    /\ UNCHANGED <<disk, bak, afiles, dfiles, new_files, fi, ignore_hashes,
                   cur, run, ghosts>>

\* all_files, get_files, remove, and the arguments of find_dups.  The rmtree
\* of the frame directories of removed files touches neither db nor DBFILE.
Reconcile(scan, ignore) ==
    /\ pc = "scan"
    /\ afiles' = scan
    /\ dfiles' = DB_get_files(db)
    /\ db' = DB_remove(db, Removed_files(afiles', dfiles'))
    /\ new_files' = New_files(afiles', dfiles')
    /\ ignore_hashes' = ignore
    /\ fi' = 0
    /\ pc' = "loop"
    /\ hist' = [hist EXCEPT !.ops = @ + 1]
    /\ UNCHANGED <<disk, bak, cur, run, ghosts>>

\* one iteration of find_dups, up to the test of SAVEBACK.  The set new_files
\* is iterated in an order the source does not fix.  The report written to
\* _DUPS_ is kept as cur.dups.
ProcessFile(path, frames) ==
    /\ pc = "loop"
    /\ path \in new_files
    /\ LET vh == videoHashes(frames, ignore_hashes)
       IN  /\ cur' = [path |-> path,
                      primary |-> [i \in DOMAIN frames |-> frames[i][1]],
                      images |-> vh.images,
                      extra_images |-> vh.extra_images,
                      dups |-> Dups(db, vh.images \o vh.extra_images)]
           /\ db' = DB_add(db, path, vh.images)
    /\ new_files' = new_files \ {path}
    /\ fi' = fi + 1
    /\ pc' = IF SaveDue(fi') THEN "checkpoint" ELSE "loop"
    /\ hist' = [hist EXCEPT !.ops = @ + 1, !.done = Append(@, path),
                            !.after = Append(@, db')]
    /\ UNCHANGED <<disk, bak, afiles, dfiles, ignore_hashes, run, ghosts>>

\* db.save(DBFILE) inside find_dups
Checkpoint ==
    /\ pc = "checkpoint"
    /\ disk' = Snapshot(db)
    /\ pc' = "loop"
    /\ hist' = [hist EXCEPT !.ops = @ + 1, !.saves = @ + 1, !.ever = TRUE]
    /\ UNCHANGED <<db, bak, afiles, dfiles, new_files, fi, ignore_hashes, cur,
                   run, ghosts>>

\* the test with a fault: the catalog is rebuilt when half of it is dead
RebuildDue_half(pd) == pd.dead * 100 >= 50 * pd.total

\* db.procent_dead() >= 0.05, of dead / total
RebuildDue(pd) == pd.dead * 100 >= 5 * pd.total

\* the end of find_dups, procent_dead and from_db
EndLoop ==
    /\ pc = "loop"
    /\ new_files = {}
    /\ LET pd == DB_procent_dead(db)
       IN  IF pd.error # ""
           THEN /\ pc' = "raised"
                /\ db' = db
                /\ hist' = hist
           ELSE /\ pc' = "save"
                /\ db' = IF RebuildDue(pd) THEN DB_from_db(db) ELSE db
                /\ hist' = [hist EXCEPT !.rebuilt = IF RebuildDue(pd) THEN @ + 1 ELSE @]
    /\ UNCHANGED <<disk, bak, afiles, dfiles, new_files, fi, ignore_hashes,
                   cur, run, ghosts>>

\* db.save(DBFILE) at the end of main()
FinalSave ==
    /\ pc = "save"
    /\ disk' = Snapshot(db)
    /\ pc' = "done"
    /\ hist' = [hist EXCEPT !.ops = @ + 1, !.ever = TRUE]
    /\ UNCHANGED <<db, bak, afiles, dfiles, new_files, fi, ignore_hashes, cur,
                   run, ghosts>>

\* the process is gone, and its memory with it
Killed(how) ==
    /\ pc' = "killed"
    /\ db' = DB_init
    /\ afiles' = {}
    /\ dfiles' = {}
    /\ new_files' = {}
    /\ fi' = 0
    /\ ignore_hashes' = <<>>
    /\ cur' = NoFileSeen
    /\ hist' = [hist EXCEPT
                  !.kill = how,
                  !.lost = {hist.done[i] : i \in (hist.saves * SAVEBACK + 1) .. Len(hist.done)},
                  !.done = <<>>, !.files0 = <<>>, !.after = <<>>, !.ops = 0,
                  !.rebuilt = 0]
    /\ UNCHANGED <<run, ghosts>>

\* terminated between two writes
Kill ==
    /\ pc \in Running
    /\ Killed("between")
    /\ UNCHANGED <<disk, bak>>

\* terminated while copyfile writes the backup
KillInBackup ==
    /\ pc = "copy"
    /\ bak' = Partial(disk)
    /\ Killed("midwrite")
    /\ UNCHANGED disk

\* terminated while save writes DBFILE, which open() has truncated
KillInSave ==
    /\ pc \in {"checkpoint", "save"}
    /\ disk' = Partial(Snapshot(db))
    /\ Killed("midwrite")
    /\ UNCHANGED bak

\* imgdup is started again
Restart ==
    /\ pc \in Ended
    /\ run < MaxRuns
    /\ run' = run + 1
    /\ pc' = "start"
    /\ db' = DB_init
    /\ afiles' = {}
    /\ dfiles' = {}
    /\ new_files' = {}
    /\ fi' = 0
    /\ ignore_hashes' = <<>>
    /\ cur' = NoFileSeen
    /\ hist' = [NoHistory EXCEPT !.ever = hist.ever, !.disk0 = disk,
                                 !.prevKill = hist.kill, !.prevLost = hist.lost,
                                 !.prevSaves = hist.saves]
    /\ UNCHANGED <<disk, bak, ghosts>>

RunNext ==
    \/ DupsNotEmpty
    \/ Begin
    \/ Backup
    \/ Load
    \/ \E scan \in SUBSET Paths, ignore \in IgnoreLists : Reconcile(scan, ignore)
    \/ \E path \in Paths, frames \in FrameLists :
          ProcessFile(path, frames)
    \/ Checkpoint
    \/ EndLoop
    \/ FinalSave
    \/ Kill
    \/ KillInBackup
    \/ KillInSave
    \/ Restart

SpecRun == RunInit /\ [][RunNext]_vars

---------------------------------------------------------------------------
(* Properties of the run *)

\* C4: procent_dead on a catalog without records has a defined outcome: no
\* run ends in the division by zero, short of its final save.
C4_DeadRatioGuarded == pc # "raised"

\* the file find_dups has just inserted, before anything else touches db
JustInserted == pc \in {"loop", "checkpoint"} /\ cur.path # None

NotIgnored(h) == \A i \in DOMAIN ignore_hashes : Hamming(ignore_hashes[i], h) > 3

RECURSIVE Kept(_)
Kept(hashes) ==
    IF hashes = <<>> THEN <<>>
    ELSE (IF NotIgnored(Head(hashes)) THEN <<Head(hashes)>> ELSE <<>>)
         \o Kept(Tail(hashes))

\* C6 as claimed: the hashes stored under the new path are all the primary
\* hashes of its frames, those near an ignored hash too.
C6_StoresAllPrimaries ==
    JustInserted =>
        /\ db.files[Len(db.files)] = cur.path
        /\ SameBag(KeysUnder(db, Len(db.files) - 1), cur.primary)

\* C6 as amended: the hashes stored under the new path are exactly the
\* primary hashes that are farther than 3 from every ignored hash; a primary
\* hash within 3 of an ignored hash is not stored, and no hash of a mirror
\* image is.
C6_StoresKeptPrimaries ==
    JustInserted =>
        /\ db.files[Len(db.files)] = cur.path
        /\ SameBag(KeysUnder(db, Len(db.files) - 1), Kept(cur.primary))

\* a file of which one primary hash was ignored and another stored
C6_Witness ==
    /\ JustInserted
    /\ cur.images # <<>>
    /\ Len(cur.images) < Len(cur.primary)
    /\ cur.extra_images # <<>>

\* C7: once a save was completed, DBFILE or its backup holds a complete
\* catalog, wherever the runs were terminated and however often imgdup was
\* started again.
C7_SnapshotOrBackupLoadable ==
    hist.ever => (disk.state = "complete" \/ bak.state = "complete")

\* C8: a load of a cut file raises and leaves tree and files as they were;
\* the run ends there, with no remove, add or save done, and nothing is
\* written after it.
C8_FailedLoadChangesNothing ==
    /\ [][(pc = "load" /\ pc' = "aborted") =>
            /\ disk.state # "complete"
            /\ db' = db /\ disk' = disk /\ bak' = bak]_vars
    /\ [](pc = "aborted" => db.tree = <<>> /\ db.files = <<>> /\ hist.ops = 0)
    /\ [][pc = "aborted" => pc' = "start" /\ disk' = disk /\ bak' = bak]_vars

\* a run that stopped at the load of a cut file which holds part of an index
C8_Witness == pc = "aborted" /\ disk.state = "partial" /\ disk.tree # <<>>

Live0 == Range(hist.files0) \ {None}

\* C9: with live the live paths of the catalog as loaded and current the
\* scan, exactly the records of live - current are tombstoned, exactly the
\* paths of current - live are processed, each once, and the record of a
\* path in both is left alone and the path not processed.
C9_Reconciliation ==
    LET removed == Live0 \ afiles
        added   == afiles \ Live0
    IN  /\ pc \in {"loop", "checkpoint"} =>
              /\ Len(db.files) = Len(hist.files0) + Len(hist.done)
              /\ \A i \in DOMAIN hist.files0 :
                    db.files[i] = IF hist.files0[i] \in removed THEN None
                                  ELSE hist.files0[i]
              /\ \A k \in DOMAIN hist.done :
                    db.files[Len(hist.files0) + k] = hist.done[k]
              /\ Range(hist.done) \cup new_files = added
              /\ Range(hist.done) \cap new_files = {}
              /\ NoDuplicates(hist.done)
        /\ pc \in {"save", "done", "raised"} =>
              /\ Range(hist.done) = added
              /\ NoDuplicates(hist.done)

\* a run that removed a path, added another and kept a third
C9_Witness ==
    /\ pc = "save"
    /\ Live0 \ afiles # {}
    /\ afiles \ Live0 # {}
    /\ Live0 \cap afiles # {}

\* C10: the catalog is saved after the k-th file of a run exactly when k is
\* a positive multiple of SAVEBACK, after the insert of that file; between
\* two writes DBFILE holds the catalog as it was after the last such insert
\* whose save was completed (DBFILE of the start of the run if none), also
\* when the run is terminated there; and the next run has every file that
\* was processed after that save, and is still there, among its new files.
C10_Checkpoints ==
    /\ [](pc = "loop" => hist.saves = fi \div SAVEBACK)
    /\ [](pc = "checkpoint" =>
            /\ fi > 0 /\ fi % SAVEBACK = 0
            /\ hist.saves = fi \div SAVEBACK - 1
            /\ Len(hist.done) = fi
            /\ db.files[Len(db.files)] = hist.done[fi])
    /\ [](pc \in {"loop", "checkpoint", "save"} =>
            disk = IF hist.saves = 0 THEN hist.disk0
                   ELSE Snapshot(hist.after[hist.saves * SAVEBACK]))
    /\ [][(pc' = "killed" /\ hist'.kill = "between") => disk' = disk]_vars
    /\ [](pc \in {"loop", "checkpoint", "save"} /\ hist.prevKill = "between" =>
            (hist.prevLost \cap afiles) \subseteq (Range(hist.done) \cup new_files))

\* a run after one that was terminated between two writes, after a save and
\* a file processed since, which this run processes again
C10_Witness ==
    /\ pc = "loop"
    /\ hist.prevKill = "between"
    /\ hist.prevSaves > 0
    /\ hist.prevLost \cap Range(hist.done) # {}

\* C17: from_db is called at most once in a run, after the removals and all
\* inserts and before the final save, and it is called exactly when
\* procent_dead is at least 0.05 there; no remove or add of the run drops a
\* record or an index entry; and the final save writes the catalog from_db
\* returned when it was called.
C17_RebuildOnlyAtEnd ==
    /\ [](hist.rebuilt <= 1)
    /\ [](hist.rebuilt = 1 => pc \in {"save", "done"} /\ new_files = {})
    /\ [][hist'.rebuilt > hist.rebuilt =>
            /\ pc = "loop" /\ pc' = "save" /\ new_files = {}
            /\ db' = DB_from_db(db)]_vars
    /\ [][(pc = "loop" /\ pc' = "save") =>
            LET pd == DB_procent_dead(db)
            IN  /\ hist'.rebuilt = 1 <=> pd.dead * 100 >= 5 * pd.total
                /\ hist'.rebuilt = 0 => db' = db]_vars
    /\ [][(pc \in {"scan", "loop"} /\ pc' \in {"loop", "checkpoint"}) =>
            /\ hist'.rebuilt = hist.rebuilt
            /\ Len(db'.files) >= Len(db.files)
            /\ \A v \in IdsOf(db.tree) : KeysUnder(db', v) = KeysUnder(db, v)]_vars
    /\ [][(pc = "save" /\ pc' = "done") => db' = db /\ disk' = Snapshot(db)]_vars
    /\ [](pc = "done" /\ hist.rebuilt = 1 =>
            /\ disk = Snapshot(db)
            /\ \A i \in DOMAIN disk.files : disk.files[i] # None)

\* a run that removed a file, processed another, rebuilt the catalog and
\* saved it
C17_Witness ==
    /\ pc = "done"
    /\ hist.rebuilt = 1
    /\ hist.done # <<>>
    /\ Live0 \ afiles # {}
    /\ disk.files # <<>>

\* C19: the removals are done before a new file is processed, and a file is
\* searched for before it is added: the paths in the report of the k-th new
\* file are among the files that were live when loaded and are still in the
\* scan, and the first k - 1 new files of the run; the file itself and the
\* removed files are not among them.
C19_HitsAreLive ==
    LET removed == Live0 \ afiles
        k       == Len(hist.done)
        earlier == {hist.done[i] : i \in 1 .. k - 1}
        hits    == {d[1] : d \in cur.dups}
    IN  /\ pc \in {"loop", "checkpoint"} => removed \cap DB_get_files(db) = {}
        /\ JustInserted =>
              /\ cur.path = hist.done[k]
              /\ hits \subseteq ((Live0 \ removed) \cup earlier)
              /\ cur.path \notin hits
              /\ hits \cap removed = {}

\* the report of a file names a file kept from the run before, and not the
\* removed file, of which a stored hash is within 3 of a hash of the file
C19_Witness ==
    /\ JustInserted
    /\ \E d \in cur.dups : d[1] \in Live0
    /\ \E i \in DOMAIN hist.files0 :
          /\ hist.files0[i] \in Live0 \ afiles
          /\ \E key \in Range(KeysUnder(db, i - 1)),
                h \in Range(cur.images \o cur.extra_images) :
                Hamming(key, h) <= 3

\* C20: when a run has ended with its final save, the live paths of the
\* saved catalog are the paths of the scan of that run, whether from_db was
\* called or not and whether every file had a hash to store or not; so that
\* a run started next on the same files finds nothing removed and nothing
\* new.
C20_RunConverges ==
    pc = "done" =>
        LET r == DB_load(DB_init, disk)
        IN  /\ ~r.raised
            /\ DB_get_files(r.db) = afiles
            /\ Removed_files(afiles, DB_get_files(r.db)) = {}
            /\ New_files(afiles, DB_get_files(r.db)) = {}

====
